---- MODULE Spec2Model ----
(***************************************************************************)
(* The circular byte buffer of src/client/c/sgs_buffer.c: the struct's     *)
(* three cursors and its backing array, the bulk operations peek, read,    *)
(* write and empty, and the two descriptor-bound loops                     *)
(* sgs_buffer_read_from_fd and sgs_buffer_write_to_fd, one step per        *)
(* read(2)/write(2) system call.                                           *)
(***************************************************************************)
EXTENDS Integers, Sequences, FiniteSets, TLC

(* ------------------------------ bounds -------------------------------- *)

\* Largest capacity a buffer is created with.
MaxCap == 3

\* Cap on the size cursor: the guards of the model keep size at or below it.
MaxSize == 4

\* Largest len handed to peek and read.
MaxLen == 4

\* Most writes (and as many reads) of a round-trip script.
MaxChunks == 2

\* The values a byte takes in the model.
Byte == {0, 1}

\* All sequences over S of length at most n.
BSeq(S, n) == UNION {[1..k -> S] : k \in 0..n}

(* ------------------------------- state -------------------------------- *)

VARIABLES
    capacity,   \* struct sgs_buffer_impl: bytes allocated to buf
    position,   \* struct sgs_buffer_impl: start of the data
    size,       \* struct sgs_buffer_impl: bytes stored
    buf,        \* struct sgs_buffer_impl: the array, indexed 0..capacity-1
    pc,         \* "idle", or the descriptor loop the caller is inside
    total,      \* local of the descriptor loops
    writable,   \* local of sgs_buffer_read_from_fd
    readable,   \* local of sgs_buffer_write_to_fd
    fifo,       \* ghost: the abstract FIFO byte sequence
    last,       \* ghost: the most recently returned call, its arguments and results
    acc,        \* ghost: the <<offset, length>> memory ranges of buf the latest step touched
    size0,      \* ghost: size when the current or latest descriptor call began
    io,         \* ghost: the descriptor call in progress, its system calls so far
    script,     \* scenario runs: the calls to make, in order
    ip          \* scenario runs: index of the next call of script

bufvars == <<capacity, position, size, buf>>
locvars == <<pc, total, writable, readable>>
scenvars == <<script, ip>>
vars == <<capacity, position, size, buf, pc, total, writable, readable,
          fifo, last, acc, size0, io, script, ip>>

(* ------------------------- size_t arithmetic -------------------------- *)

\* size_t is unsigned: arithmetic on it wraps.  The model uses the narrowest
\* width C allows for size_t; every value of the model is far below it, so any
\* wider size_t gives the same results.
SIZE_MOD == 2^16

SizeT(x) == x % SIZE_MOD

\* (size_t)-1, what read(2)/write(2)'s error return becomes in "size_t result".
SIZE_ERR == SIZE_MOD - 1

(* ------------------------- static functions --------------------------- *)

tailposOf(pos, sz) == SizeT(pos + sz) % capacity

tailpos == tailposOf(position, size)

\* readable_lenOf one byte short on wrapped data (a faulty variant).
readable_lenShort(pos, sz) ==
    IF tailposOf(pos, sz) >= pos
    THEN sz
    ELSE SizeT(capacity - pos - 1)

readable_lenOf(pos, sz) ==
    IF tailposOf(pos, sz) >= pos
    THEN sz
    ELSE SizeT(capacity - pos)

readable_len == readable_lenOf(position, size)

writable_lenOf(pos, sz) ==
    LET mytailpos == tailposOf(pos, sz)
    IN  IF mytailpos >= pos
        THEN SizeT(capacity - mytailpos)
        ELSE SizeT(pos - mytailpos)

writable_len == writable_lenOf(position, size)

sgs_buffer_remaining_capacity == SizeT(capacity - size)

sgs_buffer_size == size

sgs_buffer_capacity == capacity

(* ------------------------------ memory -------------------------------- *)

\* memcpy(dst, buf + o, n): the bytes the copy can produce.  A byte at an
\* offset of capacity or more lies outside the allocation: reading it is
\* undefined, and any value may come back.
MemReads(o, n) ==
    {s \in [1..n -> Byte] :
        \A i \in 1..n : (o + i - 1 < capacity) => s[i] = buf[o + i - 1]}

\* memcpy(buf + o, data, Len(data)) on array b.
MemWrite(b, o, data) ==
    [i \in DOMAIN b |->
        IF i >= o /\ i < o + Len(data) THEN data[i - o + 1] ELSE b[i]]

(* --------------------------- call records ----------------------------- *)

\* A returned call: out is what it stored at the caller's data (for
\* write_to_fd: the bytes the descriptor took), want what the abstract FIFO
\* gives for it, n and res the number of system calls a descriptor call made
\* and the result of its last one.
Ret(op, len, ret, out, want) ==
    [op |-> op, len |-> len, ret |-> ret, out |-> out, want |-> want,
     n |-> 0, res |-> 0]

\* No descriptor call in progress.
IoIdle == [pos0 |-> 0, sent |-> <<>>, want |-> <<>>, n |-> 0, res |-> 0]

NoCall == Ret("create", 0, 0, <<>>, <<>>)

Prefix(s, n) == SubSeq(s, 1, n)

Drop(s, n) == SubSeq(s, n + 1, Len(s))

(* ------------------------------- Init --------------------------------- *)

\* sgs_buffer_create(c), c > 0: malloc leaves the array's bytes unspecified.
Create(c) ==
    /\ capacity = c
    /\ position = 0
    /\ size = 0
    /\ buf \in [0..(c - 1) -> Byte]
    /\ pc = "idle"
    /\ total = 0
    /\ writable = 0
    /\ readable = 0
    /\ fifo = <<>>
    /\ last = NoCall
    /\ acc = {}
    /\ size0 = 0
    /\ io = IoIdle

Init ==
    /\ \E c \in 1..MaxCap : Create(c)
    /\ script = <<>>
    /\ ip = 1

(* ------------------------- peek, read, empty -------------------------- *)

\* PeekFails with the comparison off by one (a faulty variant).
PeekFailsOffByOne(len) == len >= size

\* sgs_buffer_peek's test "len > buffer->size".
PeekFails(len) == len > size

\* What sgs_buffer_peek(buffer, data, len) can do: its return value, the bytes
\* it stored at data, and the ranges of buf it copied from.
PeekOutcomes(len) ==
    LET rd == readable_len
    IN  IF PeekFails(len)
        THEN {[ret |-> -1, out |-> <<>>, acc |-> {}]}
        ELSE IF rd >= len
        THEN {[ret |-> 0, out |-> d, acc |-> {<<position, len>>}] :
                 d \in MemReads(position, len)}
        ELSE {[ret |-> 0, out |-> d1 \o d2,
               acc |-> {<<position, rd>>, <<0, len - rd>>}] :
                 d1 \in MemReads(position, rd), d2 \in MemReads(0, len - rd)}

\* What the abstract FIFO gives for a request of len bytes.
Want(len) == IF len <= Len(fifo) THEN Prefix(fifo, len) ELSE <<>>

sgs_buffer_peek(len) ==
    /\ pc = "idle"
    /\ \E r \in PeekOutcomes(len) :
          /\ last' = Ret("peek", len, r.ret, r.out, Want(len))
          /\ acc' = r.acc
    /\ UNCHANGED <<bufvars, locvars, fifo, size0, io>>

\* AdvancePosition with the modulo forgotten (a faulty variant).
AdvancePositionNoWrap(n) == SizeT(position + n)

\* sgs_buffer_read's and sgs_buffer_write_to_fd's new position after n bytes.
AdvancePosition(n) == SizeT(position + n) % capacity

sgs_buffer_read(len) ==
    /\ pc = "idle"
    /\ \E r \in PeekOutcomes(len) :
          /\ last' = Ret("read", len, r.ret, r.out, Want(len))
          /\ acc' = r.acc
          /\ IF r.ret = -1
             THEN UNCHANGED <<position, size, fifo>>
             ELSE /\ position' = AdvancePosition(len)
                  /\ size' = SizeT(size - len)
                  /\ fifo' = Drop(fifo, len)
    /\ UNCHANGED <<capacity, buf, locvars, size0, io>>

sgs_buffer_empty ==
    /\ pc = "idle"
    /\ position' = 0
    /\ size' = 0
    /\ fifo' = <<>>
    /\ last' = Ret("empty", 0, 0, <<>>, <<>>)
    /\ acc' = {}
    /\ UNCHANGED <<capacity, buf, locvars, size0, io>>

(* ------------------------------- write -------------------------------- *)

\* WriteFails with the comparison off by one (a faulty variant).
WriteFailsOffByOne(len) == len >= sgs_buffer_remaining_capacity

\* sgs_buffer_write's test "len > sgs_buffer_remaining_capacity(buffer)".
WriteFails(len) == len > sgs_buffer_remaining_capacity

\* WriteCopy storing at the head instead of the tail (a faulty variant).
WriteCopyAtHead(data) == MemWrite(buf, position, data)

\* The array after sgs_buffer_write's one or two copies of data.
WriteCopy(data) ==
    LET len == Len(data)
        w == writable_len
    IN  IF w >= len
        THEN MemWrite(buf, tailpos, data)
        ELSE MemWrite(MemWrite(buf, tailpos, Prefix(data, w)), 0, Drop(data, w))

\* The ranges of buf those copies store to.
WriteAccess(len) ==
    LET w == writable_len
    IN  IF w >= len
        THEN {<<tailpos, len>>}
        ELSE {<<tailpos, w>>, <<0, len - w>>}

sgs_buffer_write(data) ==
    LET len == Len(data)
    IN  /\ pc = "idle"
        /\ IF WriteFails(len)
           THEN /\ last' = Ret("write", len, -1, <<>>, <<>>)
                /\ acc' = {}
                /\ UNCHANGED <<size, buf, fifo>>
           ELSE /\ size + len <= MaxSize
                /\ buf' = WriteCopy(data)
                /\ size' = SizeT(size + len)
                /\ fifo' = fifo \o data
                /\ last' = Ret("write", len, 0, <<>>, <<>>)
                /\ acc' = WriteAccess(len)
        /\ UNCHANGED <<capacity, position, locvars, size0, io>>

(* ------------------------ descriptor-bound loops ---------------------- *)

\* What read(fd, p, n) or write(fd, p, n) can return in "size_t result": the
\* error return, or a count from 0 to n.
IoResults(n) == {SIZE_ERR} \cup (0..n)

\* "if (result == -1)": the system call failed.
IoError(result) == result = SIZE_ERR

\* ErrorReturn returning the running total (a faulty variant).
ErrorReturnTotal == total

\* What the descriptor loops return when the system call failed.
ErrorReturn == -1

\* "if (result != writable)" / "if (result != readable)": a partial transfer.
PartialTransfer(result, asked) == result # asked

\* The call in progress after one more system call that returned result, took
\* bytes from the array and consumed the FIFO's gone.
IoAfter(result, bytes, gone) ==
    [pos0 |-> io.pos0, sent |-> io.sent \o bytes, want |-> io.want \o gone,
     n |-> io.n + 1, res |-> result]

\* A descriptor call returns ret, nio being its system calls: its locals are
\* gone.
Return(op, ret, nio) ==
    /\ pc' = "idle"
    /\ total' = 0
    /\ writable' = 0
    /\ readable' = 0
    /\ io' = IoIdle
    /\ last' = [op |-> op, len |-> 0, ret |-> ret, out |-> nio.sent,
                want |-> nio.want, n |-> nio.n, res |-> nio.res]

\* sgs_buffer_read_from_fd up to its loop: the declarations and initialisers.
read_from_fd_enter ==
    /\ pc = "idle"
    /\ pc' = "read_from_fd"
    /\ total' = 0
    /\ writable' = writable_len
    /\ size0' = size
    /\ io' = [IoIdle EXCEPT !.pos0 = position]
    /\ acc' = {}
    /\ UNCHANGED <<bufvars, readable, fifo, last>>

\* The loop test of sgs_buffer_read_from_fd and, when it passes, one pass of the
\* body with its read(2) call; when it fails, "return total".
read_from_fd_loop ==
    /\ pc = "read_from_fd"
    /\ IF writable > 0
       THEN \E result \in IoResults(writable) :
              /\ acc' = {<<tailpos, writable>>}
              /\ IF IoError(result)
                 THEN /\ Return("read_from_fd", ErrorReturn,
                                IoAfter(result, <<>>, <<>>))
                      /\ UNCHANGED <<size, buf, fifo>>
                 ELSE IF result = 0
                 THEN /\ Return("read_from_fd", 0, IoAfter(result, <<>>, <<>>))
                      /\ UNCHANGED <<size, buf, fifo>>
                 ELSE \E data \in [1..result -> Byte] :
                        /\ size + result <= MaxSize
                        /\ buf' = MemWrite(buf, tailpos, data)
                        /\ size' = SizeT(size + result)
                        /\ fifo' = fifo \o data
                        /\ IF PartialTransfer(result, writable)
                           THEN Return("read_from_fd", SizeT(total + result),
                                       IoAfter(result, <<>>, <<>>))
                           ELSE /\ total' = SizeT(total + result)
                                /\ writable' = writable_lenOf(position, size')
                                /\ io' = IoAfter(result, <<>>, <<>>)
                                /\ UNCHANGED <<pc, readable, last>>
       ELSE /\ Return("read_from_fd", total, io)
            /\ acc' = {}
            /\ UNCHANGED <<size, buf, fifo>>
    /\ UNCHANGED <<capacity, position, size0>>

\* sgs_buffer_write_to_fd up to its loop.
write_to_fd_enter ==
    /\ pc = "idle"
    /\ pc' = "write_to_fd"
    /\ total' = 0
    /\ readable' = readable_len
    /\ size0' = size
    /\ io' = [IoIdle EXCEPT !.pos0 = position]
    /\ acc' = {}
    /\ UNCHANGED <<bufvars, writable, fifo, last>>

\* The loop test of sgs_buffer_write_to_fd and one pass of the body with its
\* write(2) call, or "return total".  write(2) takes the first result bytes of
\* the range it is handed.
write_to_fd_loop ==
    /\ pc = "write_to_fd"
    /\ IF readable > 0
       THEN \E result \in IoResults(readable) :
              /\ acc' = {<<position, readable>>}
              /\ IF IoError(result)
                 THEN /\ Return("write_to_fd", ErrorReturn,
                                IoAfter(result, <<>>, <<>>))
                      /\ UNCHANGED <<position, size, fifo>>
                 ELSE \E bytes \in MemReads(position, result) :
                      LET nio == IoAfter(result, bytes, Prefix(fifo, result))
                      IN  /\ position' = AdvancePosition(result)
                          /\ size' = SizeT(size - result)
                          /\ fifo' = Drop(fifo, result)
                          /\ IF PartialTransfer(result, readable)
                             THEN Return("write_to_fd", SizeT(total + result),
                                         nio)
                             ELSE /\ total' = SizeT(total + result)
                                  /\ readable' = readable_lenOf(position', size')
                                  /\ io' = nio
                                  /\ UNCHANGED <<pc, writable, last>>
       ELSE /\ Return("write_to_fd", total, io)
            /\ acc' = {}
            /\ UNCHANGED <<position, size, fifo>>
    /\ UNCHANGED <<capacity, buf, size0>>

(* --------------------------- specification ---------------------------- *)

\* The lens a caller hands to peek and read.
Lens == 0..MaxLen

\* The data a caller hands to write: up to capacity + 1 bytes, which covers the
\* contiguous copy, the split copy and the refusal of one byte too many.
WriteData == BSeq(Byte, capacity + 1)

Next ==
    \/ \E len \in Lens : sgs_buffer_peek(len) /\ UNCHANGED scenvars
    \/ \E len \in Lens : sgs_buffer_read(len) /\ UNCHANGED scenvars
    \/ \E data \in WriteData : sgs_buffer_write(data) /\ UNCHANGED scenvars
    \/ sgs_buffer_empty /\ UNCHANGED scenvars
    \/ read_from_fd_enter /\ UNCHANGED scenvars
    \/ read_from_fd_loop /\ UNCHANGED scenvars
    \/ write_to_fd_enter /\ UNCHANGED scenvars
    \/ write_to_fd_loop /\ UNCHANGED scenvars

Spec == Init /\ [][Next]_vars

(* ----------------------------- scenarios ------------------------------ *)

\* A scripted call.
W(data) == [op |-> "write", data |-> data, len |-> Len(data)]

R(len) == [op |-> "read", data |-> <<>>, len |-> len]

script_write ==
    /\ ip <= Len(script)
    /\ script[ip].op = "write"
    /\ sgs_buffer_write(script[ip].data)
    /\ ip' = ip + 1
    /\ UNCHANGED script

script_read ==
    /\ ip <= Len(script)
    /\ script[ip].op = "read"
    /\ sgs_buffer_read(script[ip].len)
    /\ ip' = ip + 1
    /\ UNCHANGED script

ScriptNext == script_write \/ script_read

\* On a fresh buffer of capacity c: write c - k bytes, read c - k bytes, write c
\* bytes, read c bytes.
WrapInit ==
    /\ \E c \in 1..MaxCap :
          /\ Create(c)
          /\ \E k \in 0..c :
                \E d1 \in [1..(c - k) -> Byte], d2 \in [1..c -> Byte] :
                    script = <<W(d1), R(c - k), W(d2), R(c)>>
    /\ ip = 1

SpecWrap == WrapInit /\ [][ScriptNext]_vars

RECURSIVE SumLen(_)
SumLen(chunks) ==
    IF chunks = <<>> THEN 0 ELSE Len(Head(chunks)) + SumLen(Tail(chunks))

\* On a fresh buffer: writes whose lengths total at most capacity, then reads of
\* the same lengths in the same order.
RoundTripInit ==
    /\ \E c \in 1..MaxCap :
          /\ Create(c)
          /\ \E chunks \in BSeq(BSeq(Byte, c), MaxChunks) :
                /\ SumLen(chunks) <= c
                /\ script = [i \in 1..Len(chunks) |-> W(chunks[i])]
                             \o [i \in 1..Len(chunks) |-> R(Len(chunks[i]))]
    /\ ip = 1

SpecRoundTrip == RoundTripInit /\ [][ScriptNext]_vars

(* ------------------------------- claims ------------------------------- *)

\* C1: in every reachable state 0 <= size <= capacity.
C1_SizeInRange == 0 <= size /\ size <= capacity

\* C2: every memory copy of peek, read and write, and every transfer handed to
\* the endpoint, starts at an offset o and has a length n with o + n <= capacity.
C2_InBounds == \A a \in acc : a[1] >= 0 /\ a[2] >= 0 /\ a[1] + a[2] <= capacity

\* C3: after write capacity - k, read capacity - k on a fresh buffer, the write
\* of capacity bytes succeeds and the read of capacity bytes that follows
\* returns exactly those bytes, in order.
C3_Wraparound ==
    /\ (ip > 1 /\ ip <= 4) => last.ret = 0
    /\ ip = 5 => (last.ret = 0 /\ last.out = script[3].data)

\* C4: the byte at offset (position + i) mod capacity is the i-th element of the
\* abstract FIFO for every i < size, and every successful peek or read returns
\* the first len elements of the FIFO.
C4_Refinement ==
    /\ Len(fifo) = size
    /\ \A i \in 0..(size - 1) : buf[(position + i) % capacity] = fifo[i + 1]
    /\ (last.op \in {"peek", "read"} /\ last.ret = 0) => last.out = last.want

\* C5: writes totalling at most capacity on a new buffer, then reads of the same
\* lengths in the same order: every call succeeds, each read returns the bytes
\* of its write, and size is 0 at the end.
C5_RoundTrip ==
    LET n == Len(script) \div 2
    IN  /\ ip > 1 => last.ret = 0
        /\ ip > n + 1 => last.out = script[ip - 1 - n].data
        /\ ip = 2 * n + 1 => size = 0

\* C5's case: two non-empty chunks written and read back.
C5_Witness ==
    /\ Len(script) = 4
    /\ ip = 5
    /\ script[1].len > 0
    /\ script[2].len > 0
    /\ last.op = "read"

\* C6: inside read_from_fd, where every read(2) so far delivered all that was
\* asked, the call has transferred no more than the remaining capacity it began
\* with, and asks for nothing once size = capacity.
C6_StopsWhenFull ==
    pc = "read_from_fd" =>
        /\ size <= capacity
        /\ size = capacity => writable = 0

\* C7: a non-error return of read_from_fd equals size after the call minus size
\* before it.
C7_ReturnsTransferred ==
    (pc = "idle" /\ last.op = "read_from_fd" /\ last.ret # -1)
        => last.ret = size - size0

\* C8: in every reachable state 0 <= position < capacity.
C8_PositionInRange == 0 <= position /\ position < capacity

\* C8's case: a read has carried position past the array end and back to 0.
C8_Witness ==
    /\ last.op = "read"
    /\ last.ret = 0
    /\ last.len > 0
    /\ position = 0
    /\ size > 0

\* C9: a peek leaves position, size and the array unchanged, and a peek that
\* follows a peek of the same len returns what that one returned.
C9_PeekRepeatable ==
    [][(pc = "idle" /\ pc' = "idle" /\ last'.op = "peek") =>
          /\ UNCHANGED <<position, size, buf>>
          /\ (last.op = "peek" /\ last.len = last'.len) =>
                (last'.ret = last.ret /\ last'.out = last.out)]_vars

\* C10: peek and read fail exactly when len > size; a failed call changes
\* neither position, size, the array nor the caller's memory; the others succeed.
C10_PeekReadFailure ==
    [][(pc = "idle" /\ pc' = "idle" /\ last'.op \in {"peek", "read"}) =>
          /\ (last'.ret = -1) <=> (last'.len > size)
          /\ last'.ret \in {-1, 0}
          /\ last'.ret = -1 =>
                (UNCHANGED <<position, size, buf>> /\ last'.out = <<>>)
          /\ last'.ret = 0 => Len(last'.out) = last'.len]_vars

\* C10's case: a request of size + 1 bytes on a non-empty buffer was refused.
C10_Witness ==
    /\ last.op \in {"peek", "read"}
    /\ last.ret = -1
    /\ size > 0
    /\ last.len = size + 1

\* C11: a write of len bytes fails exactly when len > remaining_capacity(); a
\* failed write changes neither size, position nor the array; a write of
\* exactly remaining_capacity() bytes brings remaining_capacity() to 0.
C11_WriteAllOrNothing ==
    [][(pc = "idle" /\ pc' = "idle" /\ last'.op = "write") =>
          /\ (last'.ret = -1) <=> (last'.len > sgs_buffer_remaining_capacity)
          /\ last'.ret \in {-1, 0}
          /\ last'.ret = -1 => UNCHANGED <<position, size, buf>>
          /\ last'.len = sgs_buffer_remaining_capacity =>
                (last'.ret = 0 /\ sgs_buffer_remaining_capacity' = 0)]_vars

\* C11's case: on a partly filled buffer a write of one byte more than the
\* remaining capacity was refused.
C11_Witness ==
    /\ last.op = "write"
    /\ last.ret = -1
    /\ size > 0
    /\ size < capacity
    /\ last.len = sgs_buffer_remaining_capacity + 1

\* C11's other case: a write of exactly the remaining capacity filled the buffer.
C11_WitnessFull ==
    /\ last.op = "write"
    /\ last.ret = 0
    /\ last.len > 0
    /\ sgs_buffer_remaining_capacity = 0

\* C12: a successful write of len bytes adds len to size, leaves position alone,
\* stores src[i] at offset (tail + i) mod capacity for every i < len, and leaves
\* every byte that was live before the call as it was.
C12_WriteFrame ==
    [][(pc = "idle" /\ pc' = "idle" /\ last'.op = "write" /\ last'.ret = 0) =>
          LET len == last'.len
              src == Drop(fifo', Len(fifo))
          IN  /\ size' = size + len
              /\ position' = position
              /\ \A i \in 0..(len - 1) :
                    buf'[(tailpos + i) % capacity] = src[i + 1]
              /\ \A i \in 0..(size - 1) :
                    buf'[(position + i) % capacity]
                        = buf[(position + i) % capacity]]_vars

\* Whether this step made a system call, and what the call returned.
StepCalls ==
    /\ pc \in {"read_from_fd", "write_to_fd"}
    /\ (IF pc' = "idle" THEN last'.n ELSE io'.n) = io.n + 1

StepRes == IF pc' = "idle" THEN last'.res ELSE io'.res

\* C13: when a system call of read_from_fd or write_to_fd fails, the call
\* returns -1 at once, the failing pass changes nothing, and size (and, for
\* write_to_fd, position) show exactly the transfers of the earlier passes.
C13_ErrorSurfaced ==
    [][(StepCalls /\ StepRes = SIZE_ERR) =>
          /\ pc' = "idle"
          /\ last'.ret = -1
          /\ UNCHANGED <<position, size, buf>>
          /\ pc = "read_from_fd" =>
                (size = size0 + total /\ position = io.pos0)
          /\ pc = "write_to_fd" =>
                /\ size = size0 - total
                /\ position = (io.pos0 + total) % capacity]_vars

\* C13's case: the second system call of a descriptor call failed after the
\* first had transferred bytes.
C13_Witness ==
    /\ pc = "idle"
    /\ last.op \in {"read_from_fd", "write_to_fd"}
    /\ last.ret = -1
    /\ last.n = 2
    /\ size # size0

\* C14: on a non-error return of write_to_fd with value t, the bytes the
\* descriptor took are the t oldest unread bytes in order, size has gone down
\* by t, position has advanced by t modulo capacity, and the bytes still stored
\* are the rest.
C14_DrainsFifo ==
    [][(pc = "write_to_fd" /\ pc' = "idle" /\ last'.ret # -1) =>
          LET t == last'.ret
          IN  /\ Len(last'.out) = t
              /\ last'.out = last'.want
              /\ size' = size0 - t
              /\ position' = (io.pos0 + t) % capacity
              /\ Len(fifo') = size'
              /\ \A i \in 0..(size' - 1) :
                    buf'[(position' + i) % capacity] = fifo'[i + 1]]_vars

\* The smaller of two numbers.
Min(a, b) == IF a <= b THEN a ELSE b

\* C16: in every reachable state readable_len() is min(size, capacity -
\* position), the longest run of live bytes from position that stays in the array.
C16_ReadableRun == readable_len = Min(size, capacity - position)

\* C17: in every reachable state writable_len() is min(capacity - size,
\* capacity - tail): never more than remaining_capacity(), and 0 when full.
C17_WritableRun ==
    /\ writable_len = Min(capacity - size, capacity - tailpos)
    /\ writable_len <= sgs_buffer_remaining_capacity
    /\ size = capacity => writable_len = 0

(* --------------- scenario: a descriptor with a short stream ----------- *)

\* A scripted sgs_buffer_read_from_fd on a descriptor that has data to deliver
\* and is at end-of-stream after it.
F(data) == [op |-> "read_from_fd", data |-> data, len |-> Len(data)]

\* read(fd, p, writable) on a descriptor holding stream, of which this call has
\* already taken total bytes: it delivers what is left, up to writable bytes,
\* and 0 (end-of-stream) when nothing is left.
EndpointYields(stream) ==
    writable > 0 =>
        LET n == Min(writable, Len(stream) - total)
        IN  /\ StepRes = n
            /\ n > 0 => fifo' = fifo \o SubSeq(stream, total + 1, total + n)

script_fd_enter ==
    /\ ip <= Len(script)
    /\ script[ip].op = "read_from_fd"
    /\ read_from_fd_enter
    /\ UNCHANGED scenvars

script_fd_loop ==
    /\ ip <= Len(script)
    /\ script[ip].op = "read_from_fd"
    /\ read_from_fd_loop
    /\ EndpointYields(script[ip].data)
    /\ ip' = IF pc' = "idle" THEN ip + 1 ELSE ip
    /\ UNCHANGED script

EofNext == script_write \/ script_read \/ script_fd_enter \/ script_fd_loop

\* A buffer brought to some position and size by a write and a read, with r
\* bytes of capacity remaining; then two read_from_fd calls on a descriptor
\* that has n bytes, 0 < n < r, and then end-of-stream.
EofInit ==
    /\ \E c \in 1..MaxCap :
          /\ Create(c)
          /\ \E d1 \in BSeq(Byte, c) :
                \E k \in 0..Len(d1) :
                  \E stream \in BSeq(Byte, c - (Len(d1) - k) - 1) :
                    /\ stream # <<>>
                    /\ script = <<W(d1), R(k), F(stream), F(<<>>)>>
    /\ ip = 1

SpecEof == EofInit /\ [][EofNext]_vars

\* C15: with r bytes of capacity remaining and a descriptor that has n bytes,
\* 0 < n < r, then end-of-stream, the first read_from_fd returns n and adds n to
\* size; the second returns 0 and leaves size as it is.
C15_PartialThenEof ==
    (Len(script) = 4 /\ script[3].op = "read_from_fd" /\ pc = "idle") =>
        /\ ip = 4 => (last.ret = script[3].len /\ size = size0 + script[3].len)
        /\ ip = 5 => (last.ret = 0 /\ size = size0)

\* What the system call of this step was asked to transfer.
Asked == IF pc = "read_from_fd" THEN writable ELSE readable

\* C18: once a system call transfers fewer bytes than it was asked for (0
\* bytes included), the descriptor call makes no further system call and
\* returns the running total, that transfer included.
C18_NoBusyRetry ==
    [][(/\ StepCalls
        /\ StepRes # SIZE_ERR
        /\ StepRes < Asked) =>
          /\ pc' = "idle"
          /\ last'.n = io.n + 1
          /\ last'.ret = total + StepRes]_vars

\* C19: no step of read_from_fd changes position or a byte that was live when
\* the call began, and a call on a full buffer makes no system call and changes
\* nothing.
C19_KeepsUnread ==
    [][pc = "read_from_fd" =>
          /\ position' = position
          /\ \A i \in 0..(size0 - 1) :
                buf'[(position + i) % capacity] = buf[(position + i) % capacity]
          /\ size0 = capacity =>
                (acc' = {} /\ UNCHANGED <<position, size, buf>>)]_vars

\* C20: while the descriptor accepts all it is offered, write_to_fd makes at
\* most two write(2) calls, none on an empty buffer, and then returns the size
\* it began with, leaving size 0.
C20_DrainsInTwo ==
    [][pc = "write_to_fd" =>
          /\ io.n <= 2
          /\ io.n = 2 => readable = 0
          /\ size0 = 0 => (io.n = 0 /\ readable = 0)
          /\ readable = 0 =>
                /\ size = 0
                /\ pc' = "idle"
                /\ acc' = {}
                /\ last'.ret = size0
                /\ last'.n = io.n
                /\ size' = 0]_vars

\* C20's case: a wrapped buffer was drained by two write(2) calls that took all
\* they were offered.
C20_Witness ==
    /\ pc = "idle"
    /\ last.op = "write_to_fd"
    /\ last.n = 2
    /\ last.ret = size0
    /\ last.ret > 0
    /\ size = 0

====
